---- MODULE Spec2Model ----
(***************************************************************************)
(* Model of nicegui/observables.py: ObservableDict, ObservableList,        *)
(* ObservableSet and make_observable, over an explicit object heap so that *)
(* identity, sharing and the on_change target of every container are       *)
(* visible.                                                                *)
(*                                                                         *)
(* A heap is a sequence of objects; a value stored in a container or held  *)
(* by the host is a scalar, None, or a reference (index into the heap).    *)
(* Every method is an operator from (heap, self, arguments) to a result    *)
(* record [h, err, ret, fired, seen]: the heap after the call, the raised  *)
(* exception ("" when none), the returned value, the on_change targets     *)
(* dispatched in order, and what each dispatched handler could read.       *)
(***************************************************************************)
EXTENDS Integers, Sequences, FiniteSets, TLC

\* Bound of the model: the number of method calls in a run
MaxSteps == 2

Keys == {1, 2}
Scalars == {1, 2}
Targets == {"T1", "T2"}
NoTarget == "none"

VARIABLES heap, root1, root2, res, last, steps

\* The App object: state and the handler lists of __init__ (named without
\* their leading underscore), the routes of the FastAPI base class; and its
\* environment: the call of start, stop or handle_exception in progress,
\* the handlers invoked by it so far, the outcome of the last registration
\* or handle_exception call, and the HTTP requests under way.
VARIABLES state, startup_handlers, shutdown_handlers, exception_handlers, routes,
          call, invoked, done, requests

obsvars == <<heap, root1, root2, res, last, steps>>

appvars == <<state, startup_handlers, shutdown_handlers, exception_handlers, routes,
             call, invoked, done, requests>>

vars == <<obsvars, appvars>>

\* class State(Enum)
STOPPED == "STOPPED"
STARTING == "STARTING"
STARTED == "STARTED"
STOPPING == "STOPPING"

State == {STOPPED, STARTING, STARTED, STOPPING}

\* No call in progress; no call made yet
Idle == [fn |-> "", i |-> 0, running |-> FALSE, e |-> ""]
NoDone == [fn |-> "", h |-> "", err |-> "", was |-> STOPPED, before |-> <<>>]

\* The clients that send GET requests, and a client that has sent none
Requests == {1, 2, 3}
NoRequest == [pc |-> "", path |-> "", route |-> 0, file |-> ""]

\* App.__init__
AppNew ==
    /\ state = STOPPED
    /\ startup_handlers = <<>>
    /\ shutdown_handlers = <<>>
    /\ exception_handlers = <<"log.exception">>
    /\ routes = <<>>
    /\ call = Idle /\ invoked = <<>> /\ done = NoDone
    /\ requests = [r \in Requests |-> NoRequest]

----------------------------------------------------------------------------
\* Values

Sc(n) == [k |-> "s", n |-> n]
Ref(i) == [k |-> "r", n |-> i]
None == [k |-> "none", n |-> 0]

IsRef(v) == v.k = "r"

\* One heap object. kind is the native type ("dict", "list", "set", "tuple");
\* obs says whether it is an instance of the Observable subclass, on_change
\* is its target attribute (NoTarget for a native container).
Obj(kind, obs, on_change, keys, vals, elems) ==
    [kind |-> kind, obs |-> obs, on_change |-> on_change,
     keys |-> keys, vals |-> vals, elems |-> elems]

IsInstance(h, v, kind) == IsRef(v) /\ h[v.n].kind = kind

----------------------------------------------------------------------------
\* Host-side literals: plain nested data the host passes to a call.

\* A literal has the shape of what a reader of the built object sees.
Lit(k, n, keys, items, elems) ==
    [k |-> k, n |-> n, obs |-> FALSE, on_change |-> NoTarget,
     keys |-> keys, items |-> items, elems |-> elems]
LS(n) == Lit("s", n, <<>>, <<>>, {})
LNone == Lit("none", 0, <<>>, <<>>, {})
LRef(i) == Lit("r", i, <<>>, <<>>, {})
LD(keys, items) == Lit("dict", 0, keys, items, {})
LL(items) == Lit("list", 0, <<>>, items, {})
LT(items) == Lit("tuple", 0, <<>>, items, {})
LSet(elems) == Lit("set", 0, <<>>, <<>>, elems)

RECURSIVE Alloc(_, _), AllocItems(_, _, _)
\* The object graph of a literal, built bottom-up as the interpreter
\* evaluates a display: [h |-> heap, v |-> value].
Alloc(h, lit) ==
    IF lit.k = "s" THEN [h |-> h, v |-> Sc(lit.n)]
    ELSE IF lit.k = "none" THEN [h |-> h, v |-> None]
    ELSE IF lit.k = "r" THEN [h |-> h, v |-> Ref(lit.n)]
    ELSE LET a == AllocItems(h, lit.items, 1)
             o == Obj(lit.k, FALSE, NoTarget, lit.keys, a.vs, lit.elems)
         IN [h |-> Append(a.h, o), v |-> Ref(Len(a.h) + 1)]

AllocItems(h, items, i) ==
    IF i > Len(items) THEN [h |-> h, vs |-> <<>>]
    ELSE LET a == Alloc(h, items[i])
             rest == AllocItems(a.h, items, i + 1)
         IN [h |-> rest.h, vs |-> <<a.v>> \o rest.vs]

----------------------------------------------------------------------------
\* Reachability and the reference-lifetime rule

Children(h, i) ==
    {h[i].vals[j].n : j \in {x \in 1..Len(h[i].vals) : IsRef(h[i].vals[x])}}

RECURSIVE ReachFrom(_, _)
ReachFrom(h, S) ==
    LET N == S \cup UNION {Children(h, i) : i \in S}
    IN IF N = S THEN S ELSE ReachFrom(h, N)

Reach(h, v) == IF IsRef(v) THEN ReachFrom(h, {v.n}) ELSE {}

Free == Obj("free", FALSE, NoTarget, <<>>, <<>>, {})

RECURSIVE Trim(_)
Trim(h) == IF Len(h) > 0 /\ h[Len(h)] = Free THEN Trim(SubSeq(h, 1, Len(h) - 1)) ELSE h

\* Objects no host variable reaches are destroyed; the others keep their
\* identity.
Collect(h, live) == Trim([i \in 1..Len(h) |-> IF i \in live THEN h[i] ELSE Free])

----------------------------------------------------------------------------
\* What a reader of a container sees, recursively: View keeps the wrapper
\* class and target of every container, Plain keeps the data only.

RECURSIVE Show(_, _, _)
Show(h, v, flags) ==
    IF ~IsRef(v) THEN Lit(v.k, v.n, <<>>, <<>>, {})
    ELSE LET o == h[v.n]
         IN [k |-> o.kind, n |-> 0,
             obs |-> IF flags THEN o.obs ELSE FALSE,
             on_change |-> IF flags THEN o.on_change ELSE NoTarget,
             keys |-> o.keys,
             items |-> [j \in 1..Len(o.vals) |-> Show(h, o.vals[j], flags)],
             elems |-> o.elems]

View(h, v) == Show(h, v, TRUE)
Plain(h, v) == Show(h, v, FALSE)

----------------------------------------------------------------------------
\* Results of a call

Ok(h, ret) == [h |-> h, err |-> "", ret |-> ret, fired |-> <<>>, seen |-> <<>>]
Raise(h, err) == [h |-> h, err |-> err, ret |-> None, fired |-> <<>>, seen |-> <<>>]
NotImplemented == [k |-> "notimpl", n |-> 0]

\* "return x" at the end of a method whose body so far produced r.
Return(r, ret) == [r EXCEPT !.ret = ret]

\* events.handle_event(handler, None): the handler is invoked synchronously,
\* once, and can read the heap as it is at that moment.
handle_event(r, handler) ==
    [r EXCEPT !.fired = Append(@, handler), !.seen = Append(@, r.h)]

----------------------------------------------------------------------------
\* Native containers (the super() calls)

Put(h, self, o) == [h EXCEPT ![self] = o]

IndexOf(seq, x) ==
    IF \E i \in 1..Len(seq) : seq[i] = x
    THEN CHOOSE i \in 1..Len(seq) : seq[i] = x /\ \A j \in 1..(i - 1) : seq[j] # x
    ELSE 0

Without(seq, i) == [j \in 1..(Len(seq) - 1) |-> IF j < i THEN seq[j] ELSE seq[j + 1]]

\* The values an iteration over v yields, in order (sets of small integers
\* iterate in ascending order).
RECURSIVE Ascending(_)
Ascending(S) ==
    IF S = {} THEN <<>>
    ELSE LET m == CHOOSE x \in S : \A y \in S : x <= y
         IN <<Sc(m)>> \o Ascending(S \ {m})

Iter(h, v) ==
    LET o == h[v.n]
    IN IF o.kind = "dict" THEN [j \in 1..Len(o.keys) |-> Sc(o.keys[j])]
       ELSE IF o.kind = "set" THEN Ascending(o.elems)
       ELSE o.vals

\* dict.__setitem__ on the object record
DictStore(o, key, value) ==
    LET i == IndexOf(o.keys, key)
    IN IF i = 0
       THEN [o EXCEPT !.keys = Append(@, key), !.vals = Append(@, value)]
       ELSE [o EXCEPT !.vals[i] = value]

RECURSIVE DictMerge(_, _, _)
\* dict.update on the object record: the entries of src from position i on
DictMerge(o, src, i) ==
    IF i > Len(src.keys) THEN o
    ELSE DictMerge(DictStore(o, src.keys[i], src.vals[i]), src, i + 1)

EmptyDict == Obj("dict", FALSE, NoTarget, <<>>, <<>>, {})
EmptyList == Obj("list", FALSE, NoTarget, <<>>, <<>>, {})
EmptySet == Obj("set", FALSE, NoTarget, <<>>, <<>>, {})

\* dict(*args): a new plain dict with the entries of the one positional
\* argument, if any.
dict_new(h, args) ==
    IF Len(args) > 1 THEN Raise(h, "TypeError")
    ELSE IF Len(args) = 0 THEN Ok(Append(h, EmptyDict), Ref(Len(h) + 1))
    ELSE IF ~IsInstance(h, args[1], "dict") THEN Raise(h, "TypeError")
    ELSE Ok(Append(h, DictMerge(EmptyDict, h[args[1].n], 1)), Ref(Len(h) + 1))

\* list(iterable): a new plain list of the items the iterable yields
list_new(h, iterable) ==
    IF ~IsRef(iterable) THEN Raise(h, "TypeError")
    ELSE Ok(Append(h, [EmptyList EXCEPT !.vals = Iter(h, iterable)]), Ref(Len(h) + 1))

Hashable(v) == ~IsRef(v)

\* The members an iterable contributes to a set; unhashable items fail.
Members(h, v) == {x.n : x \in {Iter(h, v)[j] : j \in 1..Len(Iter(h, v))}}
AllHashable(h, v) == \A j \in 1..Len(Iter(h, v)) : Hashable(Iter(h, v)[j])

\* set(*s): at most one positional argument
set_new(h, s) ==
    IF Len(s) > 1 THEN Raise(h, "TypeError")
    ELSE IF Len(s) = 0 THEN Ok(Append(h, EmptySet), Ref(Len(h) + 1))
    ELSE IF ~IsRef(s[1]) \/ ~AllHashable(h, s[1]) THEN Raise(h, "TypeError")
    ELSE Ok(Append(h, [EmptySet EXCEPT !.elems = Members(h, s[1])]), Ref(Len(h) + 1))

----------------------------------------------------------------------------
\* make_observable and the three constructors

RECURSIVE make_observable(_, _, _), ObservableDict_init(_, _, _),
          ObservableList_init(_, _, _), ObservableSet_init(_, _, _),
          ConvertVals(_, _, _, _)

\* Faulty variant: a value that is a wrapper already is kept as it is
ConvertVals_keep(h, self, i, on_change) ==
    IF i > Len(h[self].vals) THEN h
    ELSE LET v == h[self].vals[i]
             c == IF IsRef(v) /\ h[v.n].obs THEN Ok(h, v)
                  ELSE make_observable(h, v, on_change)
         IN ConvertVals([c.h EXCEPT ![self].vals[i] = c.ret], self, i + 1, on_change)

\* for ... in self: super().__setitem__(.., make_observable(value, on_change))
\* over the positions i.. of the new object self; returns the heap.
ConvertVals(h, self, i, on_change) ==
    IF i > Len(h[self].vals) THEN h
    ELSE LET c == make_observable(h, h[self].vals[i], on_change)
         IN ConvertVals([c.h EXCEPT ![self].vals[i] = c.ret], self, i + 1, on_change)

ObservableDict_init(h, data, on_change) ==
    LET self == Len(h) + 1
        h0 == Append(h, [DictMerge(EmptyDict, h[data.n], 1) EXCEPT !.obs = TRUE])
        h1 == ConvertVals(h0, self, 1, on_change)
    IN Ok([h1 EXCEPT ![self].on_change = on_change], Ref(self))

ObservableList_init(h, data, on_change) ==
    LET self == Len(h) + 1
        h0 == Append(h, [EmptyList EXCEPT !.obs = TRUE, !.vals = Iter(h, data)])
        h1 == ConvertVals(h0, self, 1, on_change)
    IN Ok([h1 EXCEPT ![self].on_change = on_change], Ref(self))

\* Faulty variant: super().__init__() without the data
ObservableSet_init_empty(h, data, on_change) ==
    LET self == Len(h) + 1
        h0 == Append(h, [EmptySet EXCEPT !.obs = TRUE])
    IN Ok([h0 EXCEPT ![self].on_change = on_change], Ref(self))

\* The members of a set are hashable, so make_observable returns each as is.
ObservableSet_init(h, data, on_change) ==
    LET self == Len(h) + 1
        h0 == Append(h, [EmptySet EXCEPT !.obs = TRUE, !.elems = Members(h, data)])
    IN Ok([h0 EXCEPT ![self].on_change = on_change], Ref(self))

make_observable(h, data, on_change) ==
    IF IsInstance(h, data, "dict") THEN ObservableDict_init(h, data, on_change)
    ELSE IF IsInstance(h, data, "list") THEN ObservableList_init(h, data, on_change)
    ELSE IF IsInstance(h, data, "set") THEN ObservableSet_init(h, data, on_change)
    ELSE Ok(h, data)

----------------------------------------------------------------------------
\* ObservableDict

Target(h, self) == h[self].on_change

\* dict.pop(k, d): never raises, d is returned for an absent key
dict_pop(h, self, k, d) ==
    LET o == h[self]
        i == IndexOf(o.keys, k)
    IN IF i = 0 THEN Ok(h, d)
       ELSE Ok(Put(h, self, [o EXCEPT !.keys = Without(@, i), !.vals = Without(@, i)]),
               o.vals[i])

\* dict.popitem(): the entry inserted last, as a (key, value) tuple
dict_popitem(h, self) ==
    LET o == h[self]
        n == Len(o.keys)
        pair == Obj("tuple", FALSE, NoTarget, <<>>, <<Sc(o.keys[n]), o.vals[n]>>, {})
    IN IF n = 0 THEN Raise(h, "KeyError")
       ELSE Ok(Append(Put(h, self, [o EXCEPT !.keys = Without(@, n),
                                             !.vals = Without(@, n)]), pair),
               Ref(Len(h) + 1))

dict_update(h, self, other) == Ok(Put(h, self, DictMerge(h[self], h[other.n], 1)), None)

dict_clear(h, self) == Ok(Put(h, self, [h[self] EXCEPT !.keys = <<>>, !.vals = <<>>]), None)

dict_setdefault(h, self, key, default) ==
    LET o == h[self]
        i == IndexOf(o.keys, key)
    IN IF i = 0 THEN Ok(Put(h, self, DictStore(o, key, default)), default)
       ELSE Ok(h, o.vals[i])

dict_setitem(h, self, key, value) == Ok(Put(h, self, DictStore(h[self], key, value)), None)

dict_delitem(h, self, key) ==
    LET o == h[self]
        i == IndexOf(o.keys, key)
    IN IF i = 0 THEN Raise(h, "KeyError")
       ELSE Ok(Put(h, self, [o EXCEPT !.keys = Without(@, i), !.vals = Without(@, i)]), None)

\* dict.__or__: a new dict of the base type
dict_or(h, self, other) ==
    IF ~IsInstance(h, other, "dict") THEN Ok(h, NotImplemented)
    ELSE Ok(Append(h, DictMerge(DictMerge(EmptyDict, h[self], 1), h[other.n], 1)),
            Ref(Len(h) + 1))

dict_ior(h, self, other) == Return(dict_update(h, self, other), Ref(self))

\* Faulty variant: notify only if the key was there
ObservableDict_pop_if_present(h, self, k, d) ==
    LET item == dict_pop(h, self, k, d)
    IN IF IndexOf(h[self].keys, k) = 0 THEN item
       ELSE Return(handle_event(item, Target(h, self)), item.ret)

ObservableDict_pop(h, self, k, d) ==
    LET item == dict_pop(h, self, k, d)
    IN Return(handle_event(item, Target(h, self)), item.ret)

ObservableDict_popitem(h, self) ==
    LET item == dict_popitem(h, self)
    IN IF item.err # "" THEN item
       ELSE Return(handle_event(item, Target(h, self)), item.ret)

ObservableDict_update(h, self, args) ==
    LET d == dict_new(h, args)
    IN IF d.err # "" THEN d
       ELSE LET m == make_observable(d.h, d.ret, Target(h, self))
            IN handle_event(dict_update(m.h, self, m.ret), Target(h, self))

ObservableDict_clear(h, self) == handle_event(dict_clear(h, self), Target(h, self))

ObservableDict_setdefault(h, self, key, default) ==
    LET m == make_observable(h, default, Target(h, self))
        item == dict_setdefault(m.h, self, key, m.ret)
    IN Return(handle_event(item, Target(h, self)), item.ret)

ObservableDict_setitem(h, self, key, value) ==
    LET m == make_observable(h, value, Target(h, self))
    IN handle_event(dict_setitem(m.h, self, key, m.ret), Target(h, self))

ObservableDict_delitem(h, self, key) ==
    LET r == dict_delitem(h, self, key)
    IN IF r.err # "" THEN r ELSE handle_event(r, Target(h, self))

\* Faulty variant: the merge is done on self, and self is returned
ObservableDict_or_self(h, self, other) ==
    IF ~IsInstance(h, other, "dict") THEN Ok(h, NotImplemented)
    ELSE Return(dict_update(h, self, other), Ref(self))

ObservableDict_or(h, self, other) == dict_or(h, self, other)

\* Faulty variant: the method ends without "return self"
ObservableDict_ior_none(h, self, other) ==
    LET d == dict_new(h, <<other>>)
    IN IF d.err # "" THEN d
       ELSE LET m == make_observable(d.h, d.ret, Target(h, self))
            IN Return(handle_event(dict_ior(m.h, self, m.ret), Target(h, self)), None)

ObservableDict_ior(h, self, other) ==
    LET d == dict_new(h, <<other>>)
    IN IF d.err # "" THEN d
       ELSE LET m == make_observable(d.h, d.ret, Target(h, self))
            IN Return(handle_event(dict_ior(m.h, self, m.ret), Target(h, self)), Ref(self))

----------------------------------------------------------------------------
\* ObservableList

Min(a, b) == IF a < b THEN a ELSE b
Max(a, b) == IF a > b THEN a ELSE b

\* A subscript: an index (0-based, negative from the end) or a slice i:j
\* with non-negative ends.
Idx(i) == [slice |-> FALSE, i |-> i, j |-> 0]
Slice(i, j) == [slice |-> TRUE, i |-> i, j |-> j]

\* 1-based position of index i in a list of length n, 0 when out of range
Pos(n, i) ==
    LET p == IF i < 0 THEN i + n ELSE i
    IN IF p >= 0 /\ p < n THEN p + 1 ELSE 0

Lo(n, key) == Min(key.i, n)
Hi(n, key) == Max(Lo(n, key), Min(key.j, n))

SetVals(h, self, vals) == Put(h, self, [h[self] EXCEPT !.vals = vals])

list_append(h, self, item) == Ok(SetVals(h, self, Append(h[self].vals, item)), None)

list_extend(h, self, iterable) ==
    IF ~IsRef(iterable) THEN Raise(h, "TypeError")
    ELSE Ok(SetVals(h, self, h[self].vals \o Iter(h, iterable)), None)

\* list.insert: an out-of-range index clamps to the nearest end
list_insert(h, self, index, object) ==
    LET v == h[self].vals
        n == Len(v)
        p == Min(Max(IF index < 0 THEN index + n ELSE index, 0), n)
    IN Ok(SetVals(h, self, SubSeq(v, 1, p) \o <<object>> \o SubSeq(v, p + 1, n)), None)

list_remove(h, self, value) ==
    LET i == IndexOf(h[self].vals, value)
    IN IF i = 0 THEN Raise(h, "ValueError")
       ELSE Ok(SetVals(h, self, Without(h[self].vals, i)), None)

list_pop(h, self, index) ==
    LET v == h[self].vals
        p == Pos(Len(v), index)
    IN IF p = 0 THEN Raise(h, "IndexError")
       ELSE Ok(SetVals(h, self, Without(v, p)), v[p])

list_clear(h, self) == Ok(SetVals(h, self, <<>>), None)

RECURSIVE Sorted(_)
\* Stable ascending order of a sequence of scalars
Sorted(v) ==
    IF Len(v) = 0 THEN <<>>
    ELSE LET i == CHOOSE x \in 1..Len(v) :
                    /\ \A y \in 1..Len(v) : v[x].n <= v[y].n
                    /\ \A y \in 1..(x - 1) : v[y].n # v[x].n
         IN <<v[i]>> \o Sorted(Without(v, i))

\* list.sort(): containers of different types do not compare
list_sort(h, self) ==
    LET v == h[self].vals
    IN IF Len(v) > 1 /\ \E j \in 1..Len(v) : v[j].k # "s" THEN Raise(h, "TypeError")
       ELSE Ok(SetVals(h, self, Sorted(v)), None)

list_reverse(h, self) ==
    LET v == h[self].vals
    IN Ok(SetVals(h, self, [j \in 1..Len(v) |-> v[Len(v) + 1 - j]]), None)

list_delitem(h, self, key) ==
    LET v == h[self].vals
        n == Len(v)
    IN IF key.slice
       THEN Ok(SetVals(h, self, SubSeq(v, 1, Lo(n, key)) \o SubSeq(v, Hi(n, key) + 1, n)), None)
       ELSE IF Pos(n, key.i) = 0 THEN Raise(h, "IndexError")
       ELSE Ok(SetVals(h, self, Without(v, Pos(n, key.i))), None)

\* list.__setitem__: an index stores the value, a slice splices in the
\* items its value yields
list_setitem(h, self, key, value) ==
    LET v == h[self].vals
        n == Len(v)
    IN IF key.slice
       THEN IF ~IsRef(value) THEN Raise(h, "TypeError")
            ELSE Ok(SetVals(h, self, SubSeq(v, 1, Lo(n, key)) \o Iter(h, value)
                                      \o SubSeq(v, Hi(n, key) + 1, n)), None)
       ELSE IF Pos(n, key.i) = 0 THEN Raise(h, "IndexError")
       ELSE Ok(SetVals(h, self, [v EXCEPT ![Pos(n, key.i)] = value]), None)

\* list.__add__: a new list of the base type; only a list may be added
list_add(h, self, other) ==
    IF ~IsInstance(h, other, "list") THEN Raise(h, "TypeError")
    ELSE Ok(Append(h, [EmptyList EXCEPT !.vals = h[self].vals \o h[other.n].vals]),
            Ref(Len(h) + 1))

list_iadd(h, self, other) == Return(list_extend(h, self, other), Ref(self))

\* Faulty variant: self.on_change is dispatched before super().append(...)
ObservableList_append_late(h, self, item) ==
    LET m == make_observable(h, item, Target(h, self))
        e == handle_event(Ok(m.h, None), Target(h, self))
        r == list_append(m.h, self, m.ret)
    IN [r EXCEPT !.fired = e.fired, !.seen = e.seen]

ObservableList_append(h, self, item) ==
    LET m == make_observable(h, item, Target(h, self))
    IN handle_event(list_append(m.h, self, m.ret), Target(h, self))

\* Faulty variant: for item in iterable: self.append(item)
ObservableList_extend_each(h, self, iterable) ==
    LET l == list_new(h, iterable)
    IN IF l.err # "" THEN l
       ELSE LET m == make_observable(l.h, l.ret, Target(h, self))
                r == list_extend(m.h, self, m.ret)
                n == Len(Iter(m.h, m.ret))
            IN [r EXCEPT !.fired = [j \in 1..n |-> Target(h, self)],
                         !.seen = [j \in 1..n |-> r.h]]

ObservableList_extend(h, self, iterable) ==
    LET l == list_new(h, iterable)
    IN IF l.err # "" THEN l
       ELSE LET m == make_observable(l.h, l.ret, Target(h, self))
            IN handle_event(list_extend(m.h, self, m.ret), Target(h, self))

ObservableList_insert(h, self, index, object) ==
    LET m == make_observable(h, object, Target(h, self))
    IN handle_event(list_insert(m.h, self, index, m.ret), Target(h, self))

\* Faulty variant: the notification is not skipped when super().remove raises
ObservableList_remove_finally(h, self, value) ==
    handle_event(list_remove(h, self, value), Target(h, self))

ObservableList_remove(h, self, value) ==
    LET r == list_remove(h, self, value)
    IN IF r.err # "" THEN r ELSE handle_event(r, Target(h, self))

\* Faulty variant: the item taken out is handed back as a plain container
ObservableList_pop_unwrap(h, self, index) ==
    LET item == list_pop(h, self, index)
        r == IF item.err = "" /\ IsRef(item.ret)
             THEN [item EXCEPT !.h = Put(item.h, item.ret.n,
                       [item.h[item.ret.n] EXCEPT !.obs = FALSE, !.on_change = NoTarget])]
             ELSE item
    IN IF item.err # "" THEN item
       ELSE Return(handle_event(r, Target(h, self)), item.ret)

ObservableList_pop(h, self, index) ==
    LET item == list_pop(h, self, index)
    IN IF item.err # "" THEN item
       ELSE Return(handle_event(item, Target(h, self)), item.ret)

ObservableList_clear(h, self) == handle_event(list_clear(h, self), Target(h, self))

ObservableList_sort(h, self) ==
    LET r == list_sort(h, self)
    IN IF r.err # "" THEN r ELSE handle_event(r, Target(h, self))

ObservableList_reverse(h, self) == handle_event(list_reverse(h, self), Target(h, self))

ObservableList_delitem(h, self, key) ==
    LET r == list_delitem(h, self, key)
    IN IF r.err # "" THEN r ELSE handle_event(r, Target(h, self))

ObservableList_setitem(h, self, key, value) ==
    LET m == make_observable(h, value, Target(h, self))
        r == list_setitem(m.h, self, key, m.ret)
    IN IF r.err # "" THEN Raise(h, r.err) ELSE handle_event(r, Target(h, self))

\* ObservableList defines no __imul__: lst *= n is list.__imul__, which
\* repeats the elements in place (none are left for n <= 0) and returns self.
RECURSIVE Repeat(_, _)
Repeat(v, n) == IF n <= 0 THEN <<>> ELSE v \o Repeat(v, n - 1)

list_imul(h, self, n) == Ok(SetVals(h, self, Repeat(h[self].vals, n)), Ref(self))

ObservableList_add(h, self, other) == list_add(h, self, other)

ObservableList_iadd(h, self, other) ==
    LET m == make_observable(h, other, Target(h, self))
        r == list_iadd(m.h, self, m.ret)
    IN IF r.err # "" THEN Raise(h, r.err)
       ELSE Return(handle_event(r, Target(h, self)), Ref(self))

----------------------------------------------------------------------------
\* ObservableSet

SetElems(h, self, elems) == Put(h, self, [h[self] EXCEPT !.elems = elems])

IsSet(h, v) == IsInstance(h, v, "set")

set_add(h, self, item) ==
    IF ~Hashable(item) THEN Raise(h, "TypeError")
    ELSE Ok(SetElems(h, self, h[self].elems \cup {item.n}), None)

set_remove(h, self, item) ==
    IF ~Hashable(item) THEN Raise(h, "TypeError")
    ELSE IF item.n \notin h[self].elems THEN Raise(h, "KeyError")
    ELSE Ok(SetElems(h, self, h[self].elems \ {item.n}), None)

set_discard(h, self, item) ==
    IF ~Hashable(item) THEN Raise(h, "TypeError")
    ELSE Ok(SetElems(h, self, h[self].elems \ {item.n}), None)

\* set.pop(): removes the member the table yields first (pick)
set_pop(h, self, pick) ==
    IF h[self].elems = {} THEN Raise(h, "KeyError")
    ELSE Ok(SetElems(h, self, h[self].elems \ {pick}), Sc(pick))

set_clear(h, self) == Ok(SetElems(h, self, {}), None)

AllIterable(h, s) == \A j \in 1..Len(s) : IsRef(s[j]) /\ AllHashable(h, s[j])

set_update(h, self, s) ==
    IF ~AllIterable(h, s) THEN Raise(h, "TypeError")
    ELSE Ok(SetElems(h, self, h[self].elems
                               \cup UNION {Members(h, s[j]) : j \in 1..Len(s)}), None)

set_intersection_update(h, self, s) ==
    IF ~AllIterable(h, s) THEN Raise(h, "TypeError")
    ELSE Ok(SetElems(h, self, {x \in h[self].elems :
                                  \A j \in 1..Len(s) : x \in Members(h, s[j])}), None)

set_difference_update(h, self, s) ==
    IF ~AllIterable(h, s) THEN Raise(h, "TypeError")
    ELSE Ok(SetElems(h, self, {x \in h[self].elems :
                                  \A j \in 1..Len(s) : x \notin Members(h, s[j])}), None)

SymDiff(A, B) == (A \ B) \cup (B \ A)

\* set.symmetric_difference_update takes exactly one argument
set_symmetric_difference_update(h, self, s) ==
    IF Len(s) # 1 \/ ~AllIterable(h, s) THEN Raise(h, "TypeError")
    ELSE Ok(SetElems(h, self, SymDiff(h[self].elems, Members(h, s[1]))), None)

\* The binary operators want a set on both sides and build a set of the
\* base type.
NewSet(h, elems) == Ok(Append(h, [EmptySet EXCEPT !.elems = elems]), Ref(Len(h) + 1))

set_or(h, self, other) ==
    IF ~IsSet(h, other) THEN Ok(h, NotImplemented)
    ELSE NewSet(h, h[self].elems \cup h[other.n].elems)

set_and(h, self, other) ==
    IF ~IsSet(h, other) THEN Ok(h, NotImplemented)
    ELSE NewSet(h, h[self].elems \cap h[other.n].elems)

set_sub(h, self, other) ==
    IF ~IsSet(h, other) THEN Ok(h, NotImplemented)
    ELSE NewSet(h, h[self].elems \ h[other.n].elems)

set_xor(h, self, other) ==
    IF ~IsSet(h, other) THEN Ok(h, NotImplemented)
    ELSE NewSet(h, SymDiff(h[self].elems, h[other.n].elems))

set_ior(h, self, other) ==
    IF ~IsSet(h, other) THEN Ok(h, NotImplemented)
    ELSE Ok(SetElems(h, self, h[self].elems \cup h[other.n].elems), Ref(self))

set_iand(h, self, other) ==
    IF ~IsSet(h, other) THEN Ok(h, NotImplemented)
    ELSE Ok(SetElems(h, self, h[self].elems \cap h[other.n].elems), Ref(self))

set_isub(h, self, other) ==
    IF ~IsSet(h, other) THEN Ok(h, NotImplemented)
    ELSE Ok(SetElems(h, self, h[self].elems \ h[other.n].elems), Ref(self))

set_ixor(h, self, other) ==
    IF ~IsSet(h, other) THEN Ok(h, NotImplemented)
    ELSE Ok(SetElems(h, self, SymDiff(h[self].elems, h[other.n].elems)), Ref(self))

ObservableSet_add(h, self, item) ==
    LET m == make_observable(h, item, Target(h, self))
        r == set_add(m.h, self, m.ret)
    IN IF r.err # "" THEN Raise(h, r.err) ELSE handle_event(r, Target(h, self))

ObservableSet_remove(h, self, item) ==
    LET r == set_remove(h, self, item)
    IN IF r.err # "" THEN r ELSE handle_event(r, Target(h, self))

ObservableSet_discard(h, self, item) ==
    LET r == set_discard(h, self, item)
    IN IF r.err # "" THEN r ELSE handle_event(r, Target(h, self))

ObservableSet_pop(h, self, pick) ==
    LET item == set_pop(h, self, pick)
    IN IF item.err # "" THEN item
       ELSE Return(handle_event(item, Target(h, self)), item.ret)

ObservableSet_clear(h, self) == handle_event(set_clear(h, self), Target(h, self))

ObservableSet_update(h, self, s) ==
    LET u == set_new(h, s)
    IN IF u.err # "" THEN u
       ELSE LET m == make_observable(u.h, u.ret, Target(h, self))
            IN handle_event(set_update(m.h, self, <<m.ret>>), Target(h, self))

ObservableSet_intersection_update(h, self, s) ==
    LET r == set_intersection_update(h, self, s)
    IN IF r.err # "" THEN r ELSE handle_event(r, Target(h, self))

ObservableSet_difference_update(h, self, s) ==
    LET r == set_difference_update(h, self, s)
    IN IF r.err # "" THEN r ELSE handle_event(r, Target(h, self))

ObservableSet_symmetric_difference_update(h, self, s) ==
    LET r == set_symmetric_difference_update(h, self, s)
    IN IF r.err # "" THEN r ELSE handle_event(r, Target(h, self))

\* Faulty variant: return ObservableSet(super().__or__(other), self.on_change)
ObservableSet_or_wrapped(h, self, other) ==
    LET r == set_or(h, self, other)
    IN IF r.ret = NotImplemented THEN r
       ELSE [r EXCEPT !.h = Put(r.h, r.ret.n, [r.h[r.ret.n] EXCEPT
                                !.obs = TRUE, !.on_change = Target(h, self)])]

ObservableSet_or(h, self, other) == set_or(h, self, other)

\* The value super().__ior__ returns (NotImplemented for an operand that is
\* no set) is dropped; the method returns self.
ObservableSet_ior(h, self, other) ==
    LET m == make_observable(h, other, Target(h, self))
    IN Return(handle_event(set_ior(m.h, self, m.ret), Target(h, self)), Ref(self))

ObservableSet_and(h, self, other) == set_and(h, self, other)

ObservableSet_iand(h, self, other) ==
    LET m == make_observable(h, other, Target(h, self))
    IN Return(handle_event(set_iand(m.h, self, m.ret), Target(h, self)), Ref(self))

ObservableSet_sub(h, self, other) == set_sub(h, self, other)

ObservableSet_isub(h, self, other) ==
    LET m == make_observable(h, other, Target(h, self))
    IN Return(handle_event(set_isub(m.h, self, m.ret), Target(h, self)), Ref(self))

ObservableSet_xor(h, self, other) == set_xor(h, self, other)

ObservableSet_ixor(h, self, other) ==
    LET m == make_observable(h, other, Target(h, self))
    IN Return(handle_event(set_ixor(m.h, self, m.ret), Target(h, self)), Ref(self))

----------------------------------------------------------------------------
\* The host program: root1 is a root wrapped with T1, root2 (once made) is
\* make_observable(root1, T2), res is a local variable holding the container
\* a call returned (res.v) and which call that was (res.op).  last describes
\* the last call: its receiver, operands (as data), outcome, and what a
\* reader of the receiver saw before it, after it and at each dispatch.

Ids(vs) == {v.n : v \in {x \in vs : IsRef(x)}}

Containers == {"dict", "list", "set"}

\* Wrappers of a kind the host can reach
Receivers(kind) == {i \in 1..Len(heap) : heap[i].kind = kind /\ heap[i].obs}

\* Native containers of a kind the host can reach
Natives(kind) == {i \in 1..Len(heap) : heap[i].kind = kind /\ ~heap[i].obs}

\* Containers the host holds in a variable and can pass as an operand
Existing == {LRef(i) : i \in {x \in Ids({root1, root2, res.v}) : heap[x].kind \in Containers}}

\* Operands
ScalarArgs == {LS(n) : n \in Scalars}
NestedDict == LD(<<1>>, <<LL(<<LS(1), LS(2)>>)>>)
ValueArgs == {LS(1), LL(<<LS(2)>>), NestedDict}
DictArgs == {LD(<<>>, <<>>), LD(<<2>>, <<LL(<<LS(1)>>)>>)}
IterArgs == {LL(<<LS(1), LS(2)>>), LL(<<LD(<<1>>, <<LS(1)>>)>>), LT(<<LD(<<1>>, <<LS(1)>>)>>)}
SetArgs == {LSet({1}), LSet({2, 3})}
Indices == {0, -1, 5}
Subscripts == {Idx(0), Idx(5), Slice(0, 1)}

Roots == {LD(<<1>>, <<LL(<<LS(1), LD(<<2>>, <<LS(2)>>)>>)>>),
          LD(<<1, 2>>, <<LSet({1}), LD(<<>>, <<>>)>>),
          LL(<<LS(2), LS(1)>>),
          LSet({1, 2})}

A(lits) == AllocItems(heap, lits, 1)

\* The operands as data
Views(a) == [j \in 1..Len(a.vs) |-> Plain(a.h, a.vs[j])]

\* The binary operator protocol: NotImplemented from the left operand's
\* method, with no reflected method on the right, is a TypeError.
Operator(r) == IF r.ret = NotImplemented THEN Raise(r.h, "TypeError") ELSE r

\* The call is over: the host keeps a returned container in res, and what
\* it no longer reaches is destroyed.
Finish(op, self, args, r) ==
    LET keep == IF r.err = "" /\ IsRef(r.ret) THEN [v |-> r.ret, op |-> op] ELSE res
    IN /\ heap' = Collect(r.h, ReachFrom(r.h, Ids({root1, root2, keep.v})))
       /\ res' = keep
       /\ steps' = steps + 1
       /\ last' = [op |-> op, self |-> self, args |-> args,
                   err |-> r.err, fired |-> r.fired,
                   pre |-> View(heap, Ref(self)), post |-> View(r.h, Ref(self)),
                   seen |-> [j \in 1..Len(r.seen) |-> View(r.seen[j], Ref(self))],
                   ret |-> View(r.h, r.ret)]
       /\ UNCHANGED <<root1, root2, appvars>>

CanCall == steps < MaxSteps

Do(op, self, args, r) == Finish(op, self, args, r)

NoCall == [op |-> "", self |-> 0, args |-> <<>>, err |-> "", fired |-> <<>>,
           pre |-> LNone, post |-> LNone, seen |-> <<>>, ret |-> LNone]

Init ==
    \E lit \in Roots :
        LET a == Alloc(<<>>, lit)
            m == make_observable(a.h, a.v, "T1")
        IN /\ heap = Collect(m.h, Reach(m.h, m.ret))
           /\ root1 = m.ret
           /\ root2 = None
           /\ res = [v |-> None, op |-> ""]
           /\ last = NoCall
           /\ steps = 0
           /\ AppNew

\* root2 = make_observable(root1, T2)
Rewrap ==
    /\ root2 = None
    /\ LET m == make_observable(heap, root1, "T2")
       IN /\ heap' = m.h
          /\ root2' = m.ret
          /\ last' = [NoCall EXCEPT !.op = "make_observable", !.self = root1.n,
                                    !.fired = m.fired,
                                    !.pre = View(heap, root1), !.post = View(m.h, root1),
                                    !.ret = View(m.h, m.ret)]
          /\ UNCHANGED <<root1, res, steps, appvars>>

\* c = root1[k]...: before its first call the host takes a reference to a
\* container nested in the tree of root1 (a read, inherited from the base
\* type, which notifies nobody)
Hold ==
    /\ steps = 0 /\ res.v = None
    /\ \E c \in Reach(heap, root1) \ {root1.n} :
           /\ heap[c].kind \in Containers
           /\ res' = [v |-> Ref(c), op |-> "hold"]
    /\ UNCHANGED <<heap, root1, root2, last, steps, appvars>>

----------------------------------------------------------------------------
\* One action per method

DictPop == CanCall /\ \E self \in Receivers("dict"), k \in Keys, d \in {LNone, LS(2)} :
    LET a == A(<<d>>) IN
    Do("dict.pop", self, <<LS(k), d>>, ObservableDict_pop(heap, self, k, a.vs[1]))

DictPopitem == CanCall /\ \E self \in Receivers("dict") :
    Do("dict.popitem", self, <<>>, ObservableDict_popitem(heap, self))

DictUpdate == CanCall /\ \E self \in Receivers("dict"),
                 args \in {<<>>} \cup {<<d>> : d \in DictArgs \cup {x \in Existing : heap[x.n].kind = "dict"}} :
    LET a == A(args) IN
    Do("dict.update", self, Views(a), ObservableDict_update(a.h, self, a.vs))

DictClear == CanCall /\ \E self \in Receivers("dict") :
    Do("dict.clear", self, <<>>, ObservableDict_clear(heap, self))

DictSetdefault == CanCall /\ \E self \in Receivers("dict"), key \in Keys, default \in {LNone, LL(<<LS(2)>>)} :
    LET a == A(<<default>>) IN
    Do("dict.setdefault", self, <<LS(key), default>>,
       ObservableDict_setdefault(a.h, self, key, a.vs[1]))

DictSetitem == CanCall /\ \E self \in Receivers("dict"), key \in Keys, value \in ValueArgs \cup Existing :
    LET a == A(<<value>>) IN
    Do("dict.__setitem__", self, <<LS(key)>> \o Views(a),
       ObservableDict_setitem(a.h, self, key, a.vs[1]))

DictDelitem == CanCall /\ \E self \in Receivers("dict"), key \in Keys :
    Do("dict.__delitem__", self, <<LS(key)>>, ObservableDict_delitem(heap, self, key))

DictOr == CanCall /\ \E self \in Receivers("dict"), other \in DictArgs \cup {LL(<<LS(1)>>)} :
    LET a == A(<<other>>) IN
    Do("dict.__or__", self, <<other>>,
       Operator(ObservableDict_or(a.h, self, a.vs[1])))

DictIor == CanCall /\ \E self \in Receivers("dict"), other \in DictArgs :
    LET a == A(<<other>>) IN
    Do("dict.__ior__", self, <<other>>,
       ObservableDict_ior(a.h, self, a.vs[1]))

\* A tuple holding one container the host already has; a list is never
\* offered a tuple through which it would come to contain itself.
TupleOf(self) == {LT(<<x>>) : x \in {y \in Existing : self \notin Reach(heap, Ref(y.n))}}

ListAppend == CanCall /\ \E self \in Receivers("list"), item \in ValueArgs \cup Existing :
    LET a == A(<<item>>) IN
    Do("list.append", self, Views(a),
       ObservableList_append(a.h, self, a.vs[1]))

ListExtend == CanCall /\ \E self \in Receivers("list"), iterable \in IterArgs :
    LET a == A(<<iterable>>) IN
    Do("list.extend", self, <<iterable>>,
       ObservableList_extend(a.h, self, a.vs[1]))

ListInsert == CanCall /\ \E self \in Receivers("list"), index \in Indices, object \in ValueArgs :
    LET a == A(<<object>>) IN
    Do("list.insert", self, <<LS(index), object>>,
       ObservableList_insert(a.h, self, index, a.vs[1]))

ListRemove == CanCall /\ \E self \in Receivers("list"), value \in ScalarArgs :
    Do("list.remove", self, <<value>>, ObservableList_remove(heap, self, Sc(value.n)))

ListPop == CanCall /\ \E self \in Receivers("list"), index \in Indices :
    Do("list.pop", self, <<LS(index)>>, ObservableList_pop(heap, self, index))

ListClear == CanCall /\ \E self \in Receivers("list") :
    Do("list.clear", self, <<>>, ObservableList_clear(heap, self))

ListSort == CanCall /\ \E self \in Receivers("list") :
    Do("list.sort", self, <<>>, ObservableList_sort(heap, self))

ListReverse == CanCall /\ \E self \in Receivers("list") :
    Do("list.reverse", self, <<>>, ObservableList_reverse(heap, self))

SubscriptLit(key) == IF key.slice THEN Lit("slice", 0, <<>>, <<LS(key.i), LS(key.j)>>, {})
                     ELSE LS(key.i)

ListDelitem == CanCall /\ \E self \in Receivers("list"), key \in Subscripts :
    Do("list.__delitem__", self, <<SubscriptLit(key)>>, ObservableList_delitem(heap, self, key))

\* An index is assigned a value, a slice an iterable (or, wrongly, a scalar).
ListSetitem == CanCall /\ \E self \in Receivers("list"), key \in Subscripts :
    \E value \in IF key.slice THEN {LS(1)} \cup IterArgs \cup TupleOf(self) ELSE ValueArgs :
    LET a == A(<<value>>) IN
    Do("list.__setitem__", self, <<SubscriptLit(key)>> \o Views(a),
       ObservableList_setitem(a.h, self, key, a.vs[1]))

ListAdd == CanCall /\ \E self \in Receivers("list"), other \in {LL(<<LS(1)>>), LT(<<LS(1)>>)} :
    LET a == A(<<other>>) IN
    Do("list.__add__", self, <<other>>,
       ObservableList_add(a.h, self, a.vs[1]))

ListIadd == CanCall /\ \E self \in Receivers("list") :
    \E other \in IterArgs \cup TupleOf(self) :
    LET a == A(<<other>>) IN
    Do("list.__iadd__", self, Views(a),
       ObservableList_iadd(a.h, self, a.vs[1]))

SetAdd == CanCall /\ \E self \in Receivers("set"), item \in ScalarArgs :
    Do("set.add", self, <<item>>, ObservableSet_add(heap, self, Sc(item.n)))

SetRemove == CanCall /\ \E self \in Receivers("set"), item \in ScalarArgs :
    Do("set.remove", self, <<item>>, ObservableSet_remove(heap, self, Sc(item.n)))

SetDiscard == CanCall /\ \E self \in Receivers("set"), item \in ScalarArgs :
    Do("set.discard", self, <<item>>, ObservableSet_discard(heap, self, Sc(item.n)))

\* Which member pop() yields is the table's choice.
SetPop == CanCall /\ \E self \in Receivers("set") :
    \E pick \in IF heap[self].elems = {} THEN {0} ELSE heap[self].elems :
        Do("set.pop", self, <<>>, ObservableSet_pop(heap, self, pick))

SetClear == CanCall /\ \E self \in Receivers("set") :
    Do("set.clear", self, <<>>, ObservableSet_clear(heap, self))

\* Argument lists of the *s methods: none, one or two collections
Others == {<<>>, <<LSet({})>>, <<LSet({1})>>, <<LL(<<LS(2), LS(3)>>)>>,
           <<LSet({1}), LSet({2, 3})>>}

SetUpdate == CanCall /\ \E self \in Receivers("set"), s \in Others :
    LET a == A(s) IN
    Do("set.update", self, s, ObservableSet_update(a.h, self, a.vs))

SetIntersectionUpdate == CanCall /\ \E self \in Receivers("set"), s \in Others :
    LET a == A(s) IN
    Do("set.intersection_update", self, s,
       ObservableSet_intersection_update(a.h, self, a.vs))

SetDifferenceUpdate == CanCall /\ \E self \in Receivers("set"), s \in Others :
    LET a == A(s) IN
    Do("set.difference_update", self, s,
       ObservableSet_difference_update(a.h, self, a.vs))

SetSymmetricDifferenceUpdate == CanCall /\ \E self \in Receivers("set"), s \in Others :
    LET a == A(s) IN
    Do("set.symmetric_difference_update", self, s,
       ObservableSet_symmetric_difference_update(a.h, self, a.vs))

ListImul == CanCall /\ \E self \in Receivers("list"), n \in {0, 2} :
    Do("list.__imul__", self, <<LS(n)>>, list_imul(heap, self, n))

\* Right operands of the set operators: sets, and a list
SetOperands == SetArgs \cup {LL(<<LS(1)>>)} \cup {x \in Existing : heap[x.n].kind = "set"}

SetOr == CanCall /\ \E self \in Receivers("set"), other \in SetOperands :
    LET a == A(<<other>>) IN
    Do("set.__or__", self, Views(a),
       Operator(ObservableSet_or(a.h, self, a.vs[1])))

SetIor == CanCall /\ \E self \in Receivers("set"), other \in SetOperands :
    LET a == A(<<other>>) IN
    Do("set.__ior__", self, Views(a),
       ObservableSet_ior(a.h, self, a.vs[1]))

SetAnd == CanCall /\ \E self \in Receivers("set"), other \in SetOperands :
    LET a == A(<<other>>) IN
    Do("set.__and__", self, Views(a),
       Operator(ObservableSet_and(a.h, self, a.vs[1])))

SetIand == CanCall /\ \E self \in Receivers("set"), other \in SetOperands :
    LET a == A(<<other>>) IN
    Do("set.__iand__", self, Views(a),
       ObservableSet_iand(a.h, self, a.vs[1]))

SetSub == CanCall /\ \E self \in Receivers("set"), other \in SetOperands :
    LET a == A(<<other>>) IN
    Do("set.__sub__", self, Views(a),
       Operator(ObservableSet_sub(a.h, self, a.vs[1])))

SetIsub == CanCall /\ \E self \in Receivers("set"), other \in SetOperands :
    LET a == A(<<other>>) IN
    Do("set.__isub__", self, Views(a),
       ObservableSet_isub(a.h, self, a.vs[1]))

SetXor == CanCall /\ \E self \in Receivers("set"), other \in SetOperands :
    LET a == A(<<other>>) IN
    Do("set.__xor__", self, Views(a),
       Operator(ObservableSet_xor(a.h, self, a.vs[1])))

SetIxor == CanCall /\ \E self \in Receivers("set"), other \in SetOperands :
    LET a == A(<<other>>) IN
    Do("set.__ixor__", self, Views(a),
       ObservableSet_ixor(a.h, self, a.vs[1]))

\* The host mutates a native container it holds (the result of an operator)
\* with the native methods.
NativeDictSetitem == CanCall /\ \E self \in Natives("dict"), key \in Keys, value \in ScalarArgs :
    Do("native dict.__setitem__", self, <<LS(key), value>>,
       dict_setitem(heap, self, key, Sc(value.n)))

NativeListAppend == CanCall /\ \E self \in Natives("list"), item \in ScalarArgs :
    Do("native list.append", self, <<item>>, list_append(heap, self, Sc(item.n)))

NativeSetAdd == CanCall /\ \E self \in Natives("set"), item \in ScalarArgs :
    Do("native set.add", self, <<item>>, set_add(heap, self, Sc(item.n)))

Next ==
    \/ Rewrap \/ Hold
    \/ DictPop \/ DictPopitem \/ DictUpdate \/ DictClear \/ DictSetdefault
    \/ DictSetitem \/ DictDelitem \/ DictOr \/ DictIor
    \/ ListAppend \/ ListExtend \/ ListInsert \/ ListRemove \/ ListPop
    \/ ListClear \/ ListSort \/ ListReverse \/ ListDelitem \/ ListSetitem
    \/ ListAdd \/ ListIadd \/ ListImul
    \/ SetAdd \/ SetRemove \/ SetDiscard \/ SetPop \/ SetClear \/ SetUpdate
    \/ SetIntersectionUpdate \/ SetDifferenceUpdate \/ SetSymmetricDifferenceUpdate
    \/ SetOr \/ SetIor \/ SetAnd \/ SetIand \/ SetSub \/ SetIsub \/ SetXor \/ SetIxor
    \/ NativeDictSetitem \/ NativeListAppend \/ NativeSetAdd

Spec == Init /\ [][Next]_vars

----------------------------------------------------------------------------
\* make_observable as a function: a plain value is converted, and the
\* result is converted once more.

Flat == {LL(<<>>), LL(<<LS(1)>>), LL(<<LS(2), LS(1)>>), LL(<<LS(1), LS(1)>>),
         LD(<<>>, <<>>), LD(<<1>>, <<LS(1)>>), LD(<<2, 1>>, <<LS(1), LNone>>)}
            \cup {LSet(S) : S \in SUBSET {1, 2}}

ConvInputs ==
    {LS(1), LS(2), LNone, LT(<<LL(<<LS(1)>>)>>)}
        \cup Flat
        \cup {LL(<<c>>) : c \in Flat}
        \cup {LD(<<1>>, <<c>>) : c \in Flat}
        \cup {LL(<<LS(1), LD(<<2>>, <<c>>)>>) : c \in Flat}
        \cup {LD(<<1, 2>>, <<LL(<<LS(2), LS(1)>>), LT(<<LD(<<1>>, <<LS(1)>>)>>)>>)}

ConvInit ==
    \E lit \in ConvInputs :
        LET a == Alloc(<<>>, lit)
        IN /\ heap = a.h
           /\ root1 = a.v
           /\ root2 = None
           /\ res = [v |-> None, op |-> ""]
           /\ last = NoCall
           /\ steps = 0
           /\ AppNew

\* The call make_observable(data, on_change) as the host sees it
Converted(data, on_change, m) ==
    [NoCall EXCEPT !.op = "make_observable",
                   !.self = IF IsRef(data) THEN data.n ELSE 0,
                   !.args = <<View(heap, data), LS(IF on_change = "T1" THEN 1 ELSE 2)>>,
                   !.fired = m.fired,
                   !.pre = View(heap, data), !.post = View(m.h, data),
                   !.ret = View(m.h, m.ret)]

\* root2 = make_observable(root1, T)
Convert ==
    /\ steps = 0
    /\ \E on_change \in Targets :
        LET m == make_observable(heap, root1, on_change)
        IN /\ heap' = m.h
           /\ root2' = m.ret
           /\ last' = Converted(root1, on_change, m)
           /\ steps' = 1
           /\ UNCHANGED <<root1, res, appvars>>

\* res = make_observable(root2, T)
ConvertAgain ==
    /\ steps = 1
    /\ \E on_change \in Targets :
        LET m == make_observable(heap, root2, on_change)
        IN /\ heap' = m.h
           /\ res' = [v |-> m.ret, op |-> "make_observable"]
           /\ last' = Converted(root2, on_change, m)
           /\ steps' = 2
           /\ UNCHANGED <<root1, root2, appvars>>

ConvNext == Convert \/ ConvertAgain

ConvSpec == ConvInit /\ [][ConvNext]_vars

----------------------------------------------------------------------------
\* A wrapper and a plain container side by side: root1 is the wrapper,
\* root2 the plain container it was made from, and every call is made on
\* both with the same operands (the container itself, as an operand, is
\* root1 for the wrapper and root2 for the plain container).

\* dict.pop(k) of the base type, no default given
dict_pop_nodefault(h, self, k) ==
    IF IndexOf(h[self].keys, k) = 0 THEN Raise(h, "KeyError")
    ELSE dict_pop(h, self, k, None)

\* dict.update(*args) of the base type with at most one dict
dict_update_args(h, self, args) ==
    IF Len(args) = 0 THEN Ok(h, None) ELSE dict_update(h, self, args[1])

Cyclic(h, i) == i \in ReachFrom(h, Children(h, i))

\* The contents of a container that contains itself
Endless == Lit("endless", 0, <<>>, <<>>, {})

W == root1.n
P == root2.n

\* The operand of the plain container's call
Mine(v) == IF v = root1 THEN root2 ELSE v

Myself == {LRef(root1.n)}

TwinNoCall ==
    [op |-> "", self |-> 0, args |-> <<>>, err |-> "", fired |-> <<>>,
     pre |-> LNone, post |-> LNone, seen |-> <<>>, ret |-> LNone,
     perr |-> "", ppost |-> LNone, pret |-> LNone]

TwinInit ==
    \E lit \in Roots :
        LET a == Alloc(<<>>, lit)
            m == make_observable(a.h, a.v, "T1")
        IN /\ heap = m.h
           /\ root1 = m.ret
           /\ root2 = a.v
           /\ res = [v |-> None, op |-> ""]
           /\ last = TwinNoCall
           /\ steps = 0
           /\ AppNew

\* Calls go on while both containers accept them
TwinCan(kind) ==
    /\ steps < MaxSteps
    /\ last.err = "" /\ last.perr = "" /\ last.ppost # Endless
    /\ heap[W].kind = kind

\* rw is the outcome of the wrapper's method, rp the outcome of the base
\* type's method on the plain container, called after it
Both(op, args, rw, rp) ==
    LET endless == Cyclic(rp.h, P)
    IN /\ heap' = Collect(rp.h, ReachFrom(rp.h, {W, P}))
       /\ last' = [op |-> op, self |-> W, args |-> args,
                   err |-> rw.err, fired |-> rw.fired,
                   pre |-> View(heap, root1), post |-> View(rw.h, root1),
                   seen |-> <<>>, ret |-> View(rw.h, rw.ret),
                   perr |-> rp.err,
                   ppost |-> IF endless THEN Endless ELSE Plain(rp.h, root2),
                   pret |-> IF endless THEN Endless ELSE Plain(rp.h, rp.ret)]
       /\ steps' = steps + 1
       /\ UNCHANGED <<root1, root2, res, appvars>>

TwinDictPop == TwinCan("dict") /\ \E k \in Keys, d \in {<<>>, <<LNone>>, <<LS(2)>>} :
    LET a == A(d)
        rw == ObservableDict_pop(heap, W, k, IF d = <<>> THEN None ELSE a.vs[1])
    IN Both("dict.pop", <<LS(k)>> \o d, rw,
            IF d = <<>> THEN dict_pop_nodefault(rw.h, P, k)
            ELSE dict_pop(rw.h, P, k, a.vs[1]))

TwinDictPopitem == TwinCan("dict") /\
    LET rw == ObservableDict_popitem(heap, W)
    IN Both("dict.popitem", <<>>, rw, dict_popitem(rw.h, P))

TwinDictUpdate == TwinCan("dict") /\ \E args \in {<<>>} \cup {<<d>> : d \in DictArgs \cup Myself} :
    LET a == A(args)
        rw == ObservableDict_update(a.h, W, a.vs)
    IN Both("dict.update", args, rw,
            dict_update_args(rw.h, P, [j \in 1..Len(a.vs) |-> Mine(a.vs[j])]))

TwinDictClear == TwinCan("dict") /\
    LET rw == ObservableDict_clear(heap, W)
    IN Both("dict.clear", <<>>, rw, dict_clear(rw.h, P))

TwinDictSetdefault == TwinCan("dict") /\ \E key \in Keys, default \in {LNone, LL(<<LS(2)>>)} :
    LET a == A(<<default>>)
        rw == ObservableDict_setdefault(a.h, W, key, a.vs[1])
    IN Both("dict.setdefault", <<LS(key), default>>, rw,
            dict_setdefault(rw.h, P, key, a.vs[1]))

TwinDictSetitem == TwinCan("dict") /\ \E key \in Keys, value \in ValueArgs \cup Myself :
    LET a == A(<<value>>)
        rw == ObservableDict_setitem(a.h, W, key, a.vs[1])
    IN Both("dict.__setitem__", <<LS(key), value>>, rw,
            dict_setitem(rw.h, P, key, Mine(a.vs[1])))

TwinDictDelitem == TwinCan("dict") /\ \E key \in Keys :
    LET rw == ObservableDict_delitem(heap, W, key)
    IN Both("dict.__delitem__", <<LS(key)>>, rw, dict_delitem(rw.h, P, key))

TwinDictIor == TwinCan("dict") /\ \E other \in DictArgs \cup Myself :
    LET a == A(<<other>>)
        rw == ObservableDict_ior(a.h, W, a.vs[1])
    IN Both("dict.__ior__", <<other>>, rw, dict_ior(rw.h, P, Mine(a.vs[1])))

TwinListAppend == TwinCan("list") /\ \E item \in ValueArgs \cup Myself :
    LET a == A(<<item>>)
        rw == ObservableList_append(a.h, W, a.vs[1])
    IN Both("list.append", <<item>>, rw, list_append(rw.h, P, Mine(a.vs[1])))

TwinListExtend == TwinCan("list") /\ \E iterable \in IterArgs \cup Myself :
    LET a == A(<<iterable>>)
        rw == ObservableList_extend(a.h, W, a.vs[1])
    IN Both("list.extend", <<iterable>>, rw, list_extend(rw.h, P, Mine(a.vs[1])))

TwinListInsert == TwinCan("list") /\ \E index \in Indices, object \in ValueArgs \cup Myself :
    LET a == A(<<object>>)
        rw == ObservableList_insert(a.h, W, index, a.vs[1])
    IN Both("list.insert", <<LS(index), object>>, rw,
            list_insert(rw.h, P, index, Mine(a.vs[1])))

TwinListRemove == TwinCan("list") /\ \E value \in ScalarArgs :
    LET rw == ObservableList_remove(heap, W, Sc(value.n))
    IN Both("list.remove", <<value>>, rw, list_remove(rw.h, P, Sc(value.n)))

TwinListPop == TwinCan("list") /\ \E index \in Indices :
    LET rw == ObservableList_pop(heap, W, index)
    IN Both("list.pop", <<LS(index)>>, rw, list_pop(rw.h, P, index))

TwinListClear == TwinCan("list") /\
    LET rw == ObservableList_clear(heap, W)
    IN Both("list.clear", <<>>, rw, list_clear(rw.h, P))

TwinListSort == TwinCan("list") /\
    LET rw == ObservableList_sort(heap, W)
    IN Both("list.sort", <<>>, rw, list_sort(rw.h, P))

TwinListReverse == TwinCan("list") /\
    LET rw == ObservableList_reverse(heap, W)
    IN Both("list.reverse", <<>>, rw, list_reverse(rw.h, P))

TwinListDelitem == TwinCan("list") /\ \E key \in Subscripts :
    LET rw == ObservableList_delitem(heap, W, key)
    IN Both("list.__delitem__", <<SubscriptLit(key)>>, rw, list_delitem(rw.h, P, key))

TwinListSetitem == TwinCan("list") /\ \E key \in Subscripts :
    \E value \in IF key.slice THEN IterArgs \cup Myself ELSE ValueArgs \cup Myself :
    LET a == A(<<value>>)
        rw == ObservableList_setitem(a.h, W, key, a.vs[1])
    IN Both("list.__setitem__", <<SubscriptLit(key), value>>, rw,
            list_setitem(rw.h, P, key, Mine(a.vs[1])))

TwinListIadd == TwinCan("list") /\ \E other \in IterArgs \cup Myself :
    LET a == A(<<other>>)
        rw == ObservableList_iadd(a.h, W, a.vs[1])
    IN Both("list.__iadd__", <<other>>, rw, list_iadd(rw.h, P, Mine(a.vs[1])))

TwinListImul == TwinCan("list") /\ \E n \in {0, 2} :
    LET rw == list_imul(heap, W, n)
    IN Both("list.__imul__", <<LS(n)>>, rw, list_imul(rw.h, P, n))

TwinSetAdd == TwinCan("set") /\ \E item \in ScalarArgs :
    LET rw == ObservableSet_add(heap, W, Sc(item.n))
    IN Both("set.add", <<item>>, rw, set_add(rw.h, P, Sc(item.n)))

TwinSetRemove == TwinCan("set") /\ \E item \in ScalarArgs :
    LET rw == ObservableSet_remove(heap, W, Sc(item.n))
    IN Both("set.remove", <<item>>, rw, set_remove(rw.h, P, Sc(item.n)))

TwinSetDiscard == TwinCan("set") /\ \E item \in ScalarArgs :
    LET rw == ObservableSet_discard(heap, W, Sc(item.n))
    IN Both("set.discard", <<item>>, rw, set_discard(rw.h, P, Sc(item.n)))

\* Two sets built alike yield the same member.
TwinSetPop == TwinCan("set") /\
    \E pick \in IF heap[W].elems = {} THEN {0} ELSE heap[W].elems :
        LET rw == ObservableSet_pop(heap, W, pick)
        IN Both("set.pop", <<>>, rw, set_pop(rw.h, P, pick))

TwinSetClear == TwinCan("set") /\
    LET rw == ObservableSet_clear(heap, W)
    IN Both("set.clear", <<>>, rw, set_clear(rw.h, P))

TwinOthers == Others \cup {<<x>> : x \in Myself}

TwinPlainArgs(a) == [j \in 1..Len(a.vs) |-> Mine(a.vs[j])]

TwinSetUpdate == TwinCan("set") /\ \E s \in TwinOthers :
    LET a == A(s)
        rw == ObservableSet_update(a.h, W, a.vs)
    IN Both("set.update", s, rw, set_update(rw.h, P, TwinPlainArgs(a)))

TwinSetIntersectionUpdate == TwinCan("set") /\ \E s \in TwinOthers :
    LET a == A(s)
        rw == ObservableSet_intersection_update(a.h, W, a.vs)
    IN Both("set.intersection_update", s, rw,
            set_intersection_update(rw.h, P, TwinPlainArgs(a)))

TwinSetDifferenceUpdate == TwinCan("set") /\ \E s \in TwinOthers :
    LET a == A(s)
        rw == ObservableSet_difference_update(a.h, W, a.vs)
    IN Both("set.difference_update", s, rw,
            set_difference_update(rw.h, P, TwinPlainArgs(a)))

TwinSetSymmetricDifferenceUpdate == TwinCan("set") /\ \E s \in TwinOthers :
    LET a == A(s)
        rw == ObservableSet_symmetric_difference_update(a.h, W, a.vs)
    IN Both("set.symmetric_difference_update", s, rw,
            set_symmetric_difference_update(rw.h, P, TwinPlainArgs(a)))

TwinSetOperands == SetArgs \cup {LL(<<LS(1)>>)} \cup Myself

TwinSetIor == TwinCan("set") /\ \E other \in TwinSetOperands :
    LET a == A(<<other>>)
        rw == ObservableSet_ior(a.h, W, a.vs[1])
    IN Both("set.__ior__", <<other>>, rw, Operator(set_ior(rw.h, P, Mine(a.vs[1]))))

TwinSetIand == TwinCan("set") /\ \E other \in TwinSetOperands :
    LET a == A(<<other>>)
        rw == ObservableSet_iand(a.h, W, a.vs[1])
    IN Both("set.__iand__", <<other>>, rw, Operator(set_iand(rw.h, P, Mine(a.vs[1]))))

TwinSetIsub == TwinCan("set") /\ \E other \in TwinSetOperands :
    LET a == A(<<other>>)
        rw == ObservableSet_isub(a.h, W, a.vs[1])
    IN Both("set.__isub__", <<other>>, rw, Operator(set_isub(rw.h, P, Mine(a.vs[1]))))

TwinSetIxor == TwinCan("set") /\ \E other \in TwinSetOperands :
    LET a == A(<<other>>)
        rw == ObservableSet_ixor(a.h, W, a.vs[1])
    IN Both("set.__ixor__", <<other>>, rw, Operator(set_ixor(rw.h, P, Mine(a.vs[1]))))

TwinNext ==
    \/ TwinDictPop \/ TwinDictPopitem \/ TwinDictUpdate \/ TwinDictClear
    \/ TwinDictSetdefault \/ TwinDictSetitem \/ TwinDictDelitem \/ TwinDictIor
    \/ TwinListAppend \/ TwinListExtend \/ TwinListInsert \/ TwinListRemove
    \/ TwinListPop \/ TwinListClear \/ TwinListSort \/ TwinListReverse
    \/ TwinListDelitem \/ TwinListSetitem \/ TwinListIadd \/ TwinListImul
    \/ TwinSetAdd \/ TwinSetRemove \/ TwinSetDiscard \/ TwinSetPop \/ TwinSetClear
    \/ TwinSetUpdate \/ TwinSetIntersectionUpdate \/ TwinSetDifferenceUpdate
    \/ TwinSetSymmetricDifferenceUpdate
    \/ TwinSetIor \/ TwinSetIand \/ TwinSetIsub \/ TwinSetIxor

TwinSpec == TwinInit /\ [][TwinNext]_vars

----------------------------------------------------------------------------
\* App: the lifecycle.  start and stop run on the event loop; while one of
\* them is inside a handler, that handler's code can call the registration
\* methods.

MaxHandlers == 2

StartupHandlers == {"s1", "s2"}
ShutdownHandlers == {"t1", "t2"}

is_starting == state = STARTING
is_started == state = STARTED
is_stopping == state = STOPPING
is_stopped == state = STOPPED

ObsNone ==
    /\ heap = <<>> /\ root1 = None /\ root2 = None
    /\ res = [v |-> None, op |-> ""] /\ last = NoCall /\ steps = 0

\* for t in handlers: the element the loop is at
Iterate_reversed(handlers, i) == handlers[Len(handlers) + 1 - i]

Iterate(handlers, i) == handlers[i]

\* helpers.safe_invoke(t): t is called once, and whatever it raises is
\* logged, not raised
safe_invoke(log, t, by) == Append(log, [h |-> t, state |-> state, by |-> by])

\* Faulty variant: return instead of raise
on_startup_quiet(handlers, handler) ==
    IF is_started THEN [err |-> "", handlers |-> handlers]
    ELSE [err |-> "", handlers |-> Append(handlers, handler)]

on_startup(handlers, handler) ==
    IF is_started THEN [err |-> "RuntimeError", handlers |-> handlers]
    ELSE [err |-> "", handlers |-> Append(handlers, handler)]

on_shutdown(handlers, handler) == [err |-> "", handlers |-> Append(handlers, handler)]

\* Code that can call a method of the app: the host between two calls, or
\* the handler that start or stop is running
CanRegister == call.fn = "" \/ (call.fn \in {"start", "stop"} /\ call.running)

Registered(fn, h, r, before) ==
    [fn |-> fn, h |-> h, err |-> r.err, was |-> state, before |-> before]

OnStartup ==
    /\ CanRegister
    /\ is_started \/ Len(startup_handlers) < MaxHandlers
    /\ \E handler \in StartupHandlers :
        LET r == on_startup(startup_handlers, handler)
        IN /\ startup_handlers' = r.handlers
           /\ done' = Registered("on_startup", handler, r, startup_handlers)
    /\ UNCHANGED <<obsvars, state, shutdown_handlers, exception_handlers, routes,
                   call, invoked, requests>>

OnShutdown ==
    /\ CanRegister
    /\ Len(shutdown_handlers) < MaxHandlers
    /\ \E handler \in ShutdownHandlers :
        LET r == on_shutdown(shutdown_handlers, handler)
        IN /\ shutdown_handlers' = r.handlers
           /\ done' = Registered("on_shutdown", handler, r, shutdown_handlers)
    /\ UNCHANGED <<obsvars, state, startup_handlers, exception_handlers, routes,
                   call, invoked, requests>>

\* start(): self.state = State.STARTING
Start ==
    /\ call.fn = ""
    /\ state' = STARTING
    /\ call' = [Idle EXCEPT !.fn = "start", !.i = 1]
    /\ invoked' = <<>>
    /\ UNCHANGED <<obsvars, startup_handlers, shutdown_handlers, exception_handlers,
                   routes, done, requests>>

\* start(): the loop calls safe_invoke(t) for the next t
StartInvoke ==
    /\ call.fn = "start" /\ ~call.running
    /\ call.i <= Len(startup_handlers)
    /\ invoked' = safe_invoke(invoked, Iterate(startup_handlers, call.i), "start")
    /\ call' = [call EXCEPT !.running = TRUE]
    /\ UNCHANGED <<obsvars, state, startup_handlers, shutdown_handlers,
                   exception_handlers, routes, done, requests>>

\* The handler returns (or raises, which safe_invoke absorbs)
HandlerReturn ==
    /\ call.fn \in {"start", "stop"} /\ call.running
    /\ call' = [call EXCEPT !.running = FALSE, !.i = @ + 1]
    /\ UNCHANGED <<obsvars, state, startup_handlers, shutdown_handlers,
                   exception_handlers, routes, invoked, done, requests>>

\* start(): the loop is over, self.state = State.STARTED
StartReturn ==
    /\ call.fn = "start" /\ ~call.running
    /\ call.i > Len(startup_handlers)
    /\ state' = STARTED
    /\ call' = Idle
    /\ UNCHANGED <<obsvars, startup_handlers, shutdown_handlers, exception_handlers,
                   routes, invoked, done, requests>>

\* stop(): self.state = State.STOPPING
Stop ==
    /\ call.fn = ""
    /\ state' = STOPPING
    /\ call' = [Idle EXCEPT !.fn = "stop", !.i = 1]
    /\ invoked' = <<>>
    /\ UNCHANGED <<obsvars, startup_handlers, shutdown_handlers, exception_handlers,
                   routes, done, requests>>

StopInvoke ==
    /\ call.fn = "stop" /\ ~call.running
    /\ call.i <= Len(shutdown_handlers)
    /\ invoked' = safe_invoke(invoked, Iterate(shutdown_handlers, call.i), "stop")
    /\ call' = [call EXCEPT !.running = TRUE]
    /\ UNCHANGED <<obsvars, state, startup_handlers, shutdown_handlers,
                   exception_handlers, routes, done, requests>>

\* stop(): the loop is over, self.state = State.STOPPED
StopReturn ==
    /\ call.fn = "stop" /\ ~call.running
    /\ call.i > Len(shutdown_handlers)
    /\ state' = STOPPED
    /\ call' = Idle
    /\ UNCHANGED <<obsvars, startup_handlers, shutdown_handlers, exception_handlers,
                   routes, invoked, done, requests>>

LifecycleInit == ObsNone /\ AppNew

LifecycleNext ==
    \/ OnStartup \/ OnShutdown
    \/ Start \/ StartInvoke \/ StartReturn
    \/ Stop \/ StopInvoke \/ StopReturn
    \/ HandlerReturn

LifecycleSpec == LifecycleInit /\ [][LifecycleNext]_vars

----------------------------------------------------------------------------
\* App: exception handlers

\* What the host registers: h0 declares no parameter, h1 one, hx one and
\* raises, hc is a coroutine function of one parameter
ExceptionHandlers == {"h0", "h1", "hx", "hc"}
Exceptions == {"e1", "e2"}

\* inspect.signature(handler).parameters is not empty
Parameters(handler) == handler # "h0"

Raises(handler) == handler = "hx"

is_coroutine_function(handler) == handler = "hc"

on_exception(handlers, handler) == Append(handlers, handler)

OnException ==
    /\ call.fn = ""
    /\ Len(exception_handlers) <= MaxHandlers
    /\ \E handler \in ExceptionHandlers :
           exception_handlers' = on_exception(exception_handlers, handler)
    /\ UNCHANGED <<obsvars, state, startup_handlers, shutdown_handlers, routes,
                   call, invoked, done, requests>>

HandleException ==
    /\ call.fn = ""
    /\ \E exception \in Exceptions :
           call' = [Idle EXCEPT !.fn = "handle_exception", !.i = 1, !.e = exception]
    /\ invoked' = <<>>
    /\ UNCHANGED <<obsvars, state, startup_handlers, shutdown_handlers,
                   exception_handlers, routes, done, requests>>

\* One turn of the loop: the handler is called without argument or with
\* the exception, its result is made a background task if it is a
\* coroutine function, and what it raises leaves handle_exception.
HandleInvoke ==
    /\ call.fn = "handle_exception"
    /\ call.i <= Len(exception_handlers)
    /\ LET handler == Iterate(exception_handlers, call.i)
       IN /\ invoked' = Append(invoked,
                 [h |-> handler,
                  arg |-> IF ~Parameters(handler) THEN "" ELSE call.e,
                  task |-> is_coroutine_function(handler)])
          /\ IF Raises(handler)
             THEN /\ call' = Idle
                  /\ done' = [NoDone EXCEPT !.fn = "handle_exception", !.err = "Error"]
             ELSE /\ call' = [call EXCEPT !.i = @ + 1]
                  /\ done' = done
    /\ UNCHANGED <<obsvars, state, startup_handlers, shutdown_handlers,
                   exception_handlers, routes, requests>>

HandleReturn ==
    /\ call.fn = "handle_exception"
    /\ call.i > Len(exception_handlers)
    /\ call' = Idle
    /\ done' = [NoDone EXCEPT !.fn = "handle_exception"]
    /\ UNCHANGED <<obsvars, state, startup_handlers, shutdown_handlers,
                   exception_handlers, routes, invoked, requests>>

ExceptionInit == ObsNone /\ AppNew

ExceptionNext == OnException \/ HandleException \/ HandleInvoke \/ HandleReturn

ExceptionSpec == ExceptionInit /\ [][ExceptionNext]_vars

----------------------------------------------------------------------------
\* App: single files.  FastAPI matches a request against the routes on the
\* event loop and runs read_item, which is not a coroutine function, on a
\* worker thread, so other requests are matched in between.

MaxRoutes == 2

Files == {"f1", "f2"}
UrlPaths == {"auto", "/x"}

\* path = f'/_nicegui/auto/static/{hash}/{name}' if url_path is None else url_path
PathOf(kind, local_file, url_path) ==
    IF url_path = "auto" THEN <<kind, local_file>> ELSE <<url_path>>

remove_route(rs, path) == SelectSeq(rs, LAMBDA r : r.path # path)

\* @self.get(path): the route is added behind the others
get(rs, path, kind, local_file, single_use) ==
    Append(rs, [path |-> path, kind |-> kind, file |-> local_file, single_use |-> single_use])

\* A file is registered once, before any request for it
Unused(local_file) ==
    /\ \A j \in 1..Len(routes) : routes[j].file # local_file
    /\ \A r \in Requests : requests[r].file # local_file

AddFile(kind) ==
    \E local_file \in Files, url_path \in UrlPaths, single_use \in BOOLEAN :
        /\ Unused(local_file)
        /\ routes' = get(routes, PathOf(kind, local_file, url_path), kind, local_file, single_use)
        /\ UNCHANGED <<obsvars, state, startup_handlers, shutdown_handlers,
                       exception_handlers, call, invoked, done, requests>>

AddStaticFile == Len(routes) < MaxRoutes /\ AddFile("static")

AddMediaFile == Len(routes) < MaxRoutes /\ AddFile("media")

\* The first route with the path, 0 if there is none
Match(rs, path) ==
    LET hits == {j \in 1..Len(rs) : rs[j].path = path}
    IN IF hits = {} THEN 0 ELSE CHOOSE j \in hits : \A k \in hits : j <= k

RoutePaths == {PathOf(kind, f, u) : kind \in {"static", "media"}, f \in Files, u \in UrlPaths}

\* A GET request arrives and is matched
Receive ==
    \E r \in Requests, path \in RoutePaths :
        /\ requests[r].pc = ""
        /\ LET j == Match(routes, path)
           IN requests' = [requests EXCEPT ![r] =
                  IF j = 0 THEN [NoRequest EXCEPT !.pc = "404", !.path = path]
                  ELSE [pc |-> "matched", path |-> path, route |-> routes[j], file |-> ""]]
        /\ UNCHANGED <<obsvars, state, startup_handlers, shutdown_handlers,
                       exception_handlers, routes, call, invoked, done>>

\* read_item() of the matched route
ReadItem ==
    \E r \in Requests :
        /\ requests[r].pc = "matched"
        /\ LET route == requests[r].route
           IN /\ routes' = IF route.single_use THEN remove_route(routes, route.path)
                           ELSE routes
              /\ requests' = [requests EXCEPT ![r].pc = "served", ![r].file = route.file]
        /\ UNCHANGED <<obsvars, state, startup_handlers, shutdown_handlers,
                       exception_handlers, call, invoked, done>>

RouteInit == ObsNone /\ AppNew

RouteNext == AddStaticFile \/ AddMediaFile \/ Receive \/ ReadItem

RouteSpec == RouteInit /\ [][RouteNext]_vars

----------------------------------------------------------------------------
\* Properties

DictMutators == {"dict.pop", "dict.popitem", "dict.update", "dict.clear",
                 "dict.setdefault", "dict.__setitem__", "dict.__delitem__",
                 "dict.__ior__"}
ListMutators == {"list.append", "list.extend", "list.insert", "list.remove",
                 "list.pop", "list.clear", "list.sort", "list.reverse",
                 "list.__delitem__", "list.__setitem__", "list.__iadd__"}
SetMutators == {"set.add", "set.remove", "set.discard", "set.pop", "set.clear",
                "set.update", "set.intersection_update", "set.difference_update",
                "set.symmetric_difference_update", "set.__ior__", "set.__iand__",
                "set.__isub__", "set.__ixor__"}
Mutators == DictMutators \cup ListMutators \cup SetMutators
ReadOnlyOps == {"dict.__or__", "list.__add__", "set.__or__", "set.__and__",
                "set.__sub__", "set.__xor__"}

Range(seq) == {seq[j] : j \in 1..Len(seq)}

InTree(root) == Reach(heap, root)

\* C1: a mutating method of a wrapper that completes without error has
\* dispatched the receiver's target exactly once, whatever the number of
\* elements or nested containers of its operand.
C1_OneNotificationPerCall ==
    (last.op \in Mutators /\ last.err = "") => last.fired = <<last.pre.on_change>>

\* C1 witness: extend with a two-element operand has fired once.
C1_Witness ==
    /\ last.op = "list.extend" /\ last.err = ""
    /\ Len(last.args[1].items) = 2
    /\ Len(last.post.items) = Len(last.pre.items) + 2
    /\ Len(last.fired) = 1

\* C2: every container reachable from a wrapped root is a wrapper.
C2_DeepWrapped ==
    \A i \in InTree(root1) \cup InTree(root2) :
        heap[i].kind \in Containers => heap[i].obs

\* C3: every wrapper reachable from the root wrapped with T1 carries T1 (and
\* likewise T2 under root2), so a mutation of a wrapper reached through
\* root1 fires T1 and nothing else.
C3_SharedTarget ==
    /\ \A i \in InTree(root1) : heap[i].obs => heap[i].on_change = "T1"
    /\ \A i \in InTree(root2) : heap[i].obs => heap[i].on_change = "T2"
    /\ (last.op \in Mutators /\ last.self \in InTree(root1))
           => Range(last.fired) \subseteq {"T1"}

\* The members an operand literal contributes to a set
ArgMembers(lit) ==
    IF lit.k = "set" THEN lit.elems
    ELSE {lit.items[j].n : j \in 1..Len(lit.items)}

KindOf(op) ==
    IF op \in DictMutators \cup {"dict.__or__"} THEN "dict"
    ELSE IF op \in ListMutators \cup {"list.__add__"} THEN "list"
    ELSE "set"

\* What Python's dict | dict, list + list and the set operators yield for
\* the receiver p and the operand o, both given as data.
Merged(p, o) ==
    LET extra == SelectSeq(o.keys, LAMBDA k : k \notin Range(p.keys))
        keys == p.keys \o extra
    IN LD(keys, [j \in 1..Len(keys) |->
                    IF keys[j] \in Range(o.keys)
                    THEN o.items[CHOOSE i \in 1..Len(o.keys) : o.keys[i] = keys[j]]
                    ELSE p.items[j]])

Standard(op, p, o) ==
    CASE op = "dict.__or__" -> Merged(p, o)
      [] op = "list.__add__" -> LL(p.items \o o.items)
      [] op = "set.__or__" -> LSet(p.elems \cup o.elems)
      [] op = "set.__and__" -> LSet(p.elems \cap o.elems)
      [] op = "set.__sub__" -> LSet(p.elems \ o.elems)
      [] op = "set.__xor__" -> LSet((p.elems \ o.elems) \cup (o.elems \ p.elems))

\* C4: the non-mutating operators (dict |, list +, set | & - ^) never fire
\* the target, leave the receiver's contents unchanged and, for an operand
\* of the receiver's kind, return a plain container of that kind holding the
\* standard merge, concatenation or set-algebra result.
C4_ReadOnlyOperators ==
    last.op \in ReadOnlyOps =>
        /\ last.fired = <<>>
        /\ last.post = last.pre
        /\ (last.args[1].k = KindOf(last.op)) =>
               /\ last.err = ""
               /\ ~last.ret.obs
               /\ last.ret = Standard(last.op, last.pre, last.args[1])

\* C4 witness: a union that adds members came back plain and silent.
C4_Witness ==
    /\ last.op = "set.__or__" /\ last.err = ""
    /\ last.pre.obs /\ ~last.ret.obs
    /\ last.ret.elems # last.pre.elems
    /\ last.fired = <<>>

InRange(n, i) == -n <= i /\ i < n

\* The error Python raises for the claim's failing cases, "" for any
\* other call.
Failure ==
    LET p == last.pre  a == last.args
    IN CASE last.op = "dict.__delitem__" /\ a[1].n \notin Range(p.keys) -> "KeyError"
         [] last.op = "dict.popitem" /\ p.keys = <<>> -> "KeyError"
         [] last.op = "list.remove" /\ a[1] \notin Range(p.items) -> "ValueError"
         [] last.op = "list.pop" /\ ~InRange(Len(p.items), a[1].n) -> "IndexError"
         [] last.op \in {"list.__setitem__", "list.__delitem__"}
                /\ a[1].k = "s" /\ ~InRange(Len(p.items), a[1].n) -> "IndexError"
         [] last.op = "set.remove" /\ a[1].n \notin p.elems -> "KeyError"
         [] last.op = "set.pop" /\ p.elems = {} -> "KeyError"
         [] OTHER -> ""

\* C5: a failing mutating operation (delete of an absent key, popitem or
\* pop on an empty container, remove of an absent value, an index out of
\* range) raises its error, fires the target zero times and leaves the
\* container's contents unchanged.
C5_FailureIsSilent ==
    Failure # "" =>
        /\ last.err = Failure
        /\ last.fired = <<>>
        /\ last.post = last.pre

\* C5 witness: remove of a value a non-empty list does not hold.
C5_Witness ==
    /\ last.op = "list.remove" /\ last.err = "ValueError"
    /\ last.pre.items # <<>>
    /\ last.fired = <<>>

IsEmpty(p) == p.keys = <<>> /\ p.items = <<>> /\ p.elems = {}

Nondecreasing(items) ==
    \A j \in 1..Len(items) :
        /\ items[j].k = "s"
        /\ j > 1 => items[j - 1].n <= items[j].n

Palindrome(items) == \A j \in 1..Len(items) : items[j] = items[Len(items) + 1 - j]

AllSets(a) == \A j \in 1..Len(a) : a[j].k \in {"set", "list"}

\* The calls of the unconditional policy that change nothing
NoChange ==
    LET p == last.pre  a == last.args
    IN \/ last.op \in {"dict.clear", "list.clear", "set.clear"} /\ IsEmpty(p)
       \/ last.op = "set.discard" /\ a[1].n \notin p.elems
       \/ last.op = "dict.pop" /\ a[1].n \notin Range(p.keys)
       \/ last.op = "dict.setdefault" /\ a[1].n \in Range(p.keys)
       \/ last.op = "list.sort" /\ Nondecreasing(p.items)
       \/ last.op = "list.reverse" /\ Palindrome(p.items)
       \/ last.op = "set.intersection_update" /\ AllSets(a)
              /\ \A j \in 1..Len(a) : p.elems \subseteq ArgMembers(a[j])
       \/ last.op = "set.difference_update" /\ AllSets(a)
              /\ \A j \in 1..Len(a) : p.elems \cap ArgMembers(a[j]) = {}
       \/ last.op = "set.symmetric_difference_update" /\ Len(a) = 1 /\ AllSets(a)
              /\ ArgMembers(a[1]) = {}

\* C6: the operations of the unconditional policy fire the target exactly
\* once, without error, also when the contents do not change: clear on an
\* empty container, discard of an absent value, dict.pop of an absent key
\* (the default, or None, is returned), setdefault on an existing key (its
\* value is returned), a sort or reverse that keeps the order, and the
\* *_update methods that keep the membership.
C6_UnconditionalPolicy ==
    NoChange =>
        /\ last.err = ""
        /\ last.fired = <<last.pre.on_change>>
        /\ last.post = last.pre
        /\ last.op = "dict.pop" => last.ret = last.args[2]
        /\ last.op = "dict.setdefault" =>
               \E i \in 1..Len(last.pre.keys) :
                   last.pre.keys[i] = last.args[1].n /\ last.ret = last.pre.items[i]

\* C6 witness: dict.pop of an absent key without a default returned None
\* and fired once.
C6_Witness ==
    /\ last.op = "dict.pop" /\ last.args[1].n \notin Range(last.pre.keys)
    /\ last.args[2] = LNone /\ last.ret = LNone
    /\ Len(last.fired) = 1

C8_UpdateAnyNumber ==
    last.op = "set.update" =>
        /\ last.err = ""
        /\ last.post.elems = last.pre.elems
               \cup UNION {ArgMembers(last.args[j]) : j \in 1..Len(last.args)}
        /\ last.fired = <<last.pre.on_change>>

CopyOps == {"dict.__or__", "list.__add__"}

Trees == InTree(root1) \cup InTree(root2)

\* The next step is a call on receiver i
Called(i) == steps' = steps + 1 /\ last'.self = i

TreesUntouched == \A i \in Trees : heap'[i] = heap[i]

\* C9 as claimed: after r = receiver | other or r = receiver + other, no
\* mutation of r or of a container reachable from r, the nested containers
\* that came from the receiver included, fires a target or changes a
\* container reachable from the receiver's root.
C9_ResultDetached ==
    [][(/\ last.op \in CopyOps /\ last.err = ""
        /\ \E i \in Reach(heap, res.v) : Called(i))
           => last'.fired = <<>> /\ TreesUntouched]_vars

\* C9 amended: the container r returned by dict | and list + is a new plain
\* container outside the reactive tree, and a mutation of r itself fires no
\* target and changes no container reachable from a root. (The copy is
\* shallow: the nested containers of r are the receiver's own wrappers.)
C9_ResultIsNewPlain ==
    [][(last.op \in CopyOps /\ last.err = "")
           => /\ res.v.n \notin Trees
              /\ ~heap[res.v.n].obs
              /\ Called(res.v.n) => last'.fired = <<>> /\ TreesUntouched]_vars

\* C9 witness: the result of a dict merge has been given a new key by its
\* holder.
C9_Witness ==
    /\ res.op = "dict.__or__"
    /\ last.op = "native dict.__setitem__" /\ last.self = res.v.n
    /\ last.post # last.pre
    /\ last.fired = <<>>

\* C10: wrapping the tree of root1 (target T1) again with T2 gives a tree
\* that shares no container with the first and changes no existing
\* wrapper; from then on a mutation in the first tree fires only T1 and
\* leaves the second tree's contents alone, and the other way round.
C10_RewrapIndependent ==
    [][/\ last'.op = "make_observable" =>
              /\ \A i \in 1..Len(heap) : heap'[i] = heap[i]
              /\ InTree(root1) \cap Reach(heap', root2') = {}
       /\ (root2 # None /\ steps' = steps + 1 /\ last'.op \in Mutators) =>
              /\ last'.self \in InTree(root1) =>
                     /\ Range(last'.fired) \subseteq {"T1"}
                     /\ View(heap', root2) = View(heap, root2)
              /\ last'.self \in InTree(root2) =>
                     /\ Range(last'.fired) \subseteq {"T2"}
                     /\ View(heap', root1) = View(heap, root1)]_vars

\* The input and the result of the last conversion
ConvIn == IF steps = 1 THEN root1 ELSE root2
ConvOut == IF steps = 1 THEN root2 ELSE res.v
ConvTarget == IF last.args[2].n = 1 THEN "T1" ELSE "T2"

\* The containers a value holds, not looking inside opaque objects
RECURSIVE TreeFrom(_, _)
TreeFrom(h, S) ==
    LET N == S \cup UNION {{c \in Children(h, i) : h[c].kind \in Containers} :
                               i \in {x \in S : h[x].kind \in Containers}}
    IN IF N = S THEN S ELSE TreeFrom(h, N)
TreeOf(h, v) == IF IsRef(v) /\ h[v.n].kind \in Containers THEN TreeFrom(h, {v.n}) ELSE {}

\* Every container of the view is a wrapper bound to on_change
RECURSIVE AllBound(_, _)
AllBound(view, on_change) ==
    view.k \in Containers =>
        /\ view.obs /\ view.on_change = on_change
        /\ \A j \in 1..Len(view.items) : AllBound(view.items[j], on_change)

\* C11: make_observable(value, target) returns a scalar or opaque value
\* itself; for a dict, list or set it returns a new wrapper of that kind with
\* the same keys and elements in the same order and every nested container
\* converted; it dispatches nothing and leaves its input as it was.
C11_Conversion ==
    last.op = "make_observable" =>
        /\ last.fired = <<>>
        /\ last.post = last.pre
        /\ IF last.pre.k \in Containers
           THEN /\ IsRef(ConvOut)
                /\ TreeOf(heap, ConvOut) \cap TreeOf(heap, ConvIn) = {}
                /\ last.ret.k = last.pre.k
                /\ Plain(heap, ConvOut) = Plain(heap, ConvIn)
                /\ AllBound(last.ret, ConvTarget)
           ELSE ConvOut = ConvIn

\* C11 witness: a plain list holding a dict came back as a wrapper holding
\* a wrapper, the input still plain.
C11_Witness ==
    /\ last.op = "make_observable" /\ steps = 1
    /\ last.pre.k = "list" /\ ~last.pre.obs
    /\ \E j \in 1..Len(last.pre.items) :
           last.pre.items[j].k = "dict" /\ last.ret.items[j].obs
    /\ last.ret.obs /\ ~last.post.obs

\* C20: converting the result of a conversion again with the same target
\* gives a value of the same shape, wrapper kinds, contents and targets;
\* with any target, the second result holds none of the first result's
\* wrappers, all its containers are bound to the second target, and those
\* of the first result stay bound to the first.
C20_Idempotent ==
    (steps = 2 /\ last.op = "make_observable") =>
        LET first == View(heap, root2)
            second == View(heap, res.v)
        IN IF first.k \in Containers
           THEN /\ ConvTarget = first.on_change => second = first
                /\ Plain(heap, res.v) = Plain(heap, root2)
                /\ TreeOf(heap, res.v) \cap TreeOf(heap, root2) = {}
                /\ AllBound(second, ConvTarget)
                /\ AllBound(first, first.on_change)
           ELSE res.v = root2

\* C20 witness: a nested value converted twice with the same target.
C20_Witness ==
    /\ steps = 2 /\ last.op = "make_observable"
    /\ IsRef(root2) /\ heap[root2.n].obs
    /\ Cardinality(TreeOf(heap, root2)) >= 3
    /\ ConvTarget = heap[root2.n].on_change
    /\ View(heap, res.v) = View(heap, root2)
    /\ res.v # root2

\* C12: no call on a wrapper changes the wrapper's contents without
\* dispatching its target, the in-place operations a wrapper inherits
\* unchanged from dict, list or set included.
C12_NoSilentMutation ==
    (last.pre.obs /\ last.post # last.pre) => last.fired # <<>>

InplaceOps == {"dict.__ior__", "list.__iadd__", "set.__ior__", "set.__iand__",
               "set.__isub__", "set.__ixor__"}

\* A view as plain data
RECURSIVE Bare(_)
Bare(view) ==
    [view EXCEPT !.obs = FALSE, !.on_change = NoTarget,
                 !.items = [j \in 1..Len(view.items) |-> Bare(view.items[j])]]

\* What the in-place operator of plain Python leaves in p for the operand
\* o; the operand kinds for which it is defined
InplaceStandard(op, p, o) ==
    CASE op = "dict.__ior__" -> Merged(p, o)
      [] op = "list.__iadd__" -> LL(p.items \o o.items)
      [] op = "set.__ior__" -> LSet(p.elems \cup o.elems)
      [] op = "set.__iand__" -> LSet(p.elems \cap o.elems)
      [] op = "set.__isub__" -> LSet(p.elems \ o.elems)
      [] op = "set.__ixor__" -> LSet((p.elems \ o.elems) \cup (o.elems \ p.elems))

InplaceDefined(op, o) ==
    IF op = "list.__iadd__" THEN o.k \in {"list", "tuple"} ELSE o.k = KindOf(op)

\* C15: dict |=, list += and set |= &= -= ^= return the receiver itself,
\* the same wrapper with the same target, holding the standard in-place
\* result; a further mutation of what was returned fires the target again.
C15_InplaceReturnsSelf ==
    /\ [](( last.op \in InplaceOps /\ last.err = "") =>
             /\ res = [v |-> Ref(last.self), op |-> last.op]
             /\ last.ret = last.post
             /\ last.post.obs /\ last.post.on_change = last.pre.on_change
             /\ InplaceDefined(last.op, last.args[1]) =>
                    Bare(last.post) = Bare(InplaceStandard(last.op, last.pre, last.args[1])))
    /\ [][(/\ last.op \in InplaceOps /\ last.err = ""
           /\ Called(res.v.n) /\ last'.op \in Mutators /\ last'.err = "")
              => last'.fired = <<last.post.on_change>>]_vars

\* C15 witness: the set returned by |= with new members was mutated again
\* and fired again.
C15_Witness ==
    /\ res.op = "set.__ior__" /\ last.self = res.v.n
    /\ last.op = "set.add" /\ last.post # last.pre
    /\ Len(last.fired) = 1

\* The wrapper the host holds in res left the trees in this call
Removed(c) ==
    /\ steps' = steps + 1 /\ last'.err = ""
    /\ c \in Trees /\ c \notin Reach(heap', root1) /\ c \notin Reach(heap', root2)

\* What res refers to before and after a step
Held == IF IsRef(res.v) THEN {res.v.n} ELSE {}

HeldAfter == IF IsRef(res'.v) THEN {res'.v.n} ELSE {}

\* C16: a nested wrapper removed from its parent (dict pop, popitem, clear,
\* delete; list remove, pop, clear, deletion; overwritten by an item or
\* index assignment) is the same wrapper with the same target and
\* contents; a later mutation of it through the retained reference fires
\* that target exactly once and changes no container reachable from a root.
C16_RemovalKeepsWrapper ==
    [][/\ \A c \in HeldAfter \cap Trees :
              (heap[c].obs /\ Removed(c)) => heap'[c] = heap[c]
       /\ \A c \in Held \ Trees :
              (heap[c].obs /\ Called(c) /\ last'.op \in Mutators /\ last'.err = "")
                  => last'.fired = <<heap[c].on_change>> /\ TreesUntouched]_vars

\* C16 witness: a held nested wrapper was removed from its parent without
\* being returned, and then mutated, firing T1 once.
C16_Witness ==
    /\ res.op = "hold" /\ res.v.n \notin Trees
    /\ last.self = res.v.n /\ last.op \in Mutators /\ last.post # last.pre
    /\ last.fired = <<"T1">>

Twinned == last.op # "" /\ last.err = "" /\ last.perr = ""

\* C19: a mutating call that succeeds on a wrapper and on a plain container
\* of the same kind holding the same value leaves the two with equal
\* contents, compared recursively, and returns equal values.
C19_Refinement ==
    Twinned => (Bare(last.post) = last.ppost /\ Bare(last.ret) = last.pret)

InvokedHandlers == [j \in 1..Len(invoked) |-> invoked[j].h]

IsPrefix(a, b) == Len(a) <= Len(b) /\ SubSeq(b, 1, Len(a)) = a

Returns(fn) == call.fn = fn /\ call'.fn = ""

Flags == <<is_starting, is_started, is_stopping, is_stopped>>

\* The loop of fn over handlers, as far as it has come
InOrder(fn, handlers, during) ==
    /\ state = during
    /\ Len(invoked) = IF call.running THEN call.i ELSE call.i - 1
    /\ InvokedHandlers = SubSeq(handlers, 1, Len(invoked))
    /\ \A j \in 1..Len(invoked) : invoked[j].by = fn /\ invoked[j].state = during

C18_AllHandlersInvoked ==
    [][Returns("handle_exception") =>
          /\ Len(invoked') = Len(exception_handlers)
          /\ \A j \in 1..Len(exception_handlers) :
                 /\ invoked'[j].h = exception_handlers[j]
                 /\ invoked'[j].arg = IF Parameters(exception_handlers[j]) THEN call.e ELSE ""]_vars

Served(r) == requests[r].pc = "served"

\* C13: of the requests for a file registered with single_use=True at
\* most one receives it, however the requests interleave, and once one
\* has received it no later request is matched to its route.
C13_SingleUseServedOnce ==
    /\ [](\A r1, r2 \in Requests :
             (/\ Served(r1) /\ Served(r2)
              /\ requests[r1].route.single_use
              /\ requests[r1].file = requests[r2].file) => r1 = r2)
    /\ [][\A r \in Requests :
             (requests[r].pc = "" /\ requests'[r].pc = "matched"
                                  /\ requests'[r].route.single_use)
                 => \A q \in Requests : ~(Served(q) /\ requests[q].file = requests'[r].route.file)]_vars

====
